---- MODULE Spec2Model ----
(***************************************************************************)
(* LinkUp semantic search: the three server entry points that answer       *)
(* GET /api/semantic-search/:searchQuery                                   *)
(*   - the lexical server   (scoreOpportunity over the MongoDB catalog),   *)
(*   - the full server      (vectorSearch, rank-derived scores),           *)
(*   - the demo server      (vectorSearch, similarity || fallback scores). *)
(* The out-of-process engine vector_search.py is not part of the sources;  *)
(* its adaptive threshold is modelled from the design document.            *)
(*                                                                         *)
(* Units: similarities and vector scores are hundredths (0.75 = 75);       *)
(* time is counted in ticks of 30 days, so that the recency boost          *)
(* max(0, 10 - days/30) is max(0, 10 - age) with age in ticks.             *)
(***************************************************************************)
EXTENDS Integers, Sequences, FiniteSets, TLC

VARIABLES server, alive, catalog, index, clock, req, eng, prev,
          boot, calls, seed, route, child, app

\* the state of the single-request server model
serverVars == <<server, alive, catalog, index, clock, req, eng, prev>>

\* one vectorSearch call with its child process and its promise, and the
\* LinkUpApp object of the page
client == <<child, app>>

\* process start-up, concurrent vectorSearch calls, the seed script, the
\* /api/opportunities request in flight, and the two above
aux == <<boot, calls, seed, route, child, app>>

vars == <<server, alive, catalog, index, clock, req, eng, prev,
          boot, calls, seed, route, child, app>>

----------------------------------------------------------------------------
(* Bounds of the model *)

MaxDocs == 2
MaxIndex == 4
LongLen == 12
MaxLimit == 3
MaxClock == 2
MaxCalls == 2
MaxChunks == 2
MaxRuns == 2
MaxCards == 2

(* Program constants *)

DefaultLimit == 10
MinResults == 3
StartThreshold == 75
FindLimit == 500
ListDefault == 50
OverlapWeight == 10
TagWeight == 5
RecencyMax == 10
FullTop == 100
FullStep == 10
DemoTop == 90
DemoStep == 5

(* Design-document constants of the engine *)

Floor == 0
RelaxSteps == {25, 50}

----------------------------------------------------------------------------
(* Small helpers *)

Min(a, b) == IF a < b THEN a ELSE b

Max(a, b) == IF a > b THEN a ELSE b

Take(s, n) == SubSeq(s, 1, Min(Max(n, 0), Len(s)))

RECURSIVE SelectIdx(_, _)
SelectIdx(s, keep) ==
    IF s = <<>> THEN <<>>
    ELSE IF keep[Len(s)]
         THEN Append(SelectIdx(SubSeq(s, 1, Len(s) - 1), keep), s[Len(s)])
         ELSE SelectIdx(SubSeq(s, 1, Len(s) - 1), keep)

----------------------------------------------------------------------------
(* Array.prototype.sort((a, b) => b.score - a.score): a stable sort by      *)
(* descending score.                                                        *)

RECURSIVE InsertByScore(_, _)
InsertByScore(x, s) ==
    IF s = <<>> THEN <<x>>
    ELSE IF s[Len(s)].score >= x.score
         THEN Append(s, x)
         ELSE Append(InsertByScore(x, SubSeq(s, 1, Len(s) - 1)), s[Len(s)])

RECURSIVE SortByScoreDesc(_)
SortByScoreDesc(s) ==
    IF s = <<>> THEN <<>>
    ELSE InsertByScore(s[Len(s)], SortByScoreDesc(SubSeq(s, 1, Len(s) - 1)))

----------------------------------------------------------------------------
(* Request inputs *)

Words == {"art", "arts", "swim", "Art"}

Lower(w) == IF w = "Art" THEN "art" ELSE w

IsSubstr(t, w) == t = w \/ (t = "art" /\ w = "arts")

Queries == {<<>>, <<"Art", "swim">>}

RawLimits ==
    {[kind |-> "absent", n |-> 0], [kind |-> "text", n |-> 0]}
    \cup {[kind |-> "num", n |-> k] : k \in -1..MaxLimit}

\* req.query.limit ? Number(req.query.limit) : 10
ParseLimit(raw) ==
    IF raw.kind = "absent" THEN [nan |-> FALSE, n |-> DefaultLimit]
    ELSE IF raw.kind = "text" THEN [nan |-> TRUE, n |-> 0]
    ELSE [nan |-> FALSE, n |-> raw.n]

\* !query || typeof query !== 'string'
InvalidQuery(q) == q = <<>>

\* query texts made of white space only, such as "%20" in the URL
BlankQueries == {<<" ">>, <<" ", " ">>}

\* the text is empty once white space is trimmed
Blank(q) == \A i \in 1..Len(q) : q[i] = " "

----------------------------------------------------------------------------
(* Lexical server *)

Dates == {<<>>, <<-12>>, <<-2>>}

Docs ==
    [text : {<<"swim">>, <<"art">>},
     cats : {<<>>, <<"arts">>},
     last_updated : Dates]

LongDoc == [text |-> <<"art">>, cats |-> <<>>, last_updated |-> <<-2>>]

Catalogs ==
    UNION {[1..n -> Docs] : n \in 0..MaxDocs}
    \cup {[i \in 1..LongLen |-> LongDoc]}

\* q.split(/\W+/).filter(Boolean) on the lowercased query
Tokens(q) ==
    LET words == SelectSeq(q, LAMBDA w : w # " ")
    IN  [i \in 1..Len(words) |-> Lower(words[i])]

\* the haystack built from the names and descriptions only
HayNoTags(opp) == [i \in 1..Len(opp.text) |-> Lower(opp.text[i])]

\* the lowercased haystack: name and description words, then category tags
Hay(opp) == [i \in 1..Len(opp.text) + Len(opp.cats) |->
                IF i <= Len(opp.text) THEN Lower(opp.text[i])
                ELSE Lower(opp.cats[i - Len(opp.text)])]

HayIncludes(hay, t) == \E i \in 1..Len(hay) : IsSubstr(t, hay[i])

Overlap(opp, q) ==
    Cardinality({i \in 1..Len(Tokens(q)) : HayIncludes(Hay(opp), Tokens(q)[i])})

TagBoost(opp, q) ==
    Cardinality({<<c, i>> \in (1..Len(opp.cats)) \X (1..Len(Tokens(q))) :
                    IsSubstr(Tokens(q)[i], Lower(opp.cats[c]))})

\* the boost without the Math.max(0, ...) clamp
RecencyBoostNoClamp(opp, now) ==
    IF opp.last_updated = <<>> THEN 0
    ELSE RecencyMax - (now - opp.last_updated[1])

RecencyBoost(opp, now) ==
    IF opp.last_updated = <<>> THEN 0
    ELSE Max(0, RecencyMax - (now - opp.last_updated[1]))

scoreOpportunity(opp, q, now) ==
    Overlap(opp, q) * OverlapWeight + TagBoost(opp, q) * TagWeight
        + RecencyBoost(opp, now)

\* scored.slice(0, limit && Number(limit) > 0 ? Number(limit) : 10)
SliceCount(limit) ==
    IF ~limit.nan /\ limit.n > 0 THEN limit.n ELSE DefaultLimit

\* scored.slice(0, limit) without the default
LexicalResultsNoDefault(cat, q, limit, now) ==
    LET candidates == Take(cat, FindLimit)
        scored == [i \in 1..Len(candidates) |->
                     [score |-> scoreOpportunity(candidates[i], q, now),
                      opportunity |-> [id |-> i, embedding |-> FALSE]]]
        n == IF limit.nan THEN 0
             ELSE IF limit.n < 0 THEN Len(scored) + limit.n
             ELSE limit.n
    IN  Take(SortByScoreDesc(scored), n)

LexicalResults(cat, q, limit, now) ==
    LET candidates == Take(cat, FindLimit)
        scored == [i \in 1..Len(candidates) |->
                     [score |-> scoreOpportunity(candidates[i], q, now),
                      opportunity |-> [id |-> i, embedding |-> FALSE]]]
    IN  Take(SortByScoreDesc(scored), SliceCount(limit))

----------------------------------------------------------------------------
(* The engine process vector_search.py (design document, sections 4.4-4.6) *)

Sims == {-20, 0, 50, 80}

Indexes ==
    UNION {[1..n -> Sims] : n \in 0..MaxIndex}
    \cup {[i \in 1..LongLen |-> 80]}

\* candidates left in catalog insertion order
RankedUnsorted(idx) == [i \in 1..Len(idx) |-> [score |-> idx[i], id |-> i]]

\* SimilarityRanker: candidates sorted by descending similarity, ties in
\* catalog order
Ranked(idx) ==
    SortByScoreDesc([i \in 1..Len(idx) |-> [score |-> idx[i], id |-> i]])

\* candidates with similarity >= threshold
Filtered(idx, thr) ==
    LET r == Ranked(idx)
    IN  SelectIdx(r, [i \in 1..Len(r) |-> r[i].score >= thr])

\* limit: positive integer, anything else is the documented default
EngineLimit(l) == IF ~l.nan /\ l.n > 0 THEN l.n ELSE DefaultLimit

\* relaxation stops when min_results is reached or the floor is hit
RelaxDone(idx, args, thr) ==
    Len(Filtered(idx, thr)) >= args.min_results \/ thr <= Floor

Relaxed(thr, d) == Max(Floor, thr - d)

\* the JSON array printed on stdout
EngineOutput(idx, args, thr, withSim, withEmb) ==
    LET top == Take(Filtered(idx, thr), EngineLimit(args.limit))
    IN  [i \in 1..Len(top) |->
            [id |-> top[i].id,
             similarity |-> IF withSim THEN <<top[i].score>> ELSE <<>>,
             embedding |-> withEmb]]

----------------------------------------------------------------------------
(* Vector servers: vectorSearch and the two handlers *)

\* the argv of spawn('python3', [script, '--query', ..., '--threshold', ...])
vectorSearch(query, limit, minResults, threshold) ==
    [query |-> query, limit |-> limit,
     min_results |-> minResults, threshold |-> threshold]

\* the arguments 3 and 0.75 passed in swapped order: the engine gets
\* threshold 3.0 and min_results 0.75 (reached by one candidate)
HandlerCallSwapped(query, limit) == vectorSearch(query, limit, 1, 300)

\* await vectorSearch(query, limit, 3, 0.75)
HandlerCall(query, limit) ==
    vectorSearch(query, limit, MinResults, StartThreshold)

\* JSON.parse(output): throws unless the text is JSON
ParseOK(out) == out.kind \in {"array", "object"}

\* vectorResults.map throws a TypeError unless the value is an array
IsArray(out) == out.kind = "array"

\* full server: score: 1.0 - (index * 0.1), opportunity: opportunity
FormatFull(vectorResults) ==
    [i \in 1..Len(vectorResults) |->
        [score |-> FullTop - (i - 1) * FullStep,
         opportunity |-> [id |-> vectorResults[i].id,
                          embedding |-> vectorResults[i].embedding]]]

\* a JavaScript number is truthy unless it is missing or 0
Truthy(sim) == sim # <<>> /\ sim[1] # 0

\* demo server: score: result.similarity || (0.9 - index * 0.05),
\* opportunity: cleanOpportunity (the listed fields only)
FormatDemo(vectorResults) ==
    [i \in 1..Len(vectorResults) |->
        [score |-> IF Truthy(vectorResults[i].similarity)
                   THEN vectorResults[i].similarity[1]
                   ELSE DemoTop - (i - 1) * DemoStep,
         opportunity |-> [id |-> vectorResults[i].id, embedding |-> FALSE]]]

Format(srv, vectorResults) ==
    IF srv = "full" THEN FormatFull(vectorResults)
    ELSE FormatDemo(vectorResults)

----------------------------------------------------------------------------
(* State *)

Servers == {"lexical", "full", "demo"}

NoArgs == [query |-> <<>>, limit |-> [nan |-> FALSE, n |-> 0],
           min_results |-> 0, threshold |-> 0]

NoOut == [kind |-> "none", items |-> <<>>]

NoEng == [pc |-> "none", args |-> NoArgs, threshold |-> 0,
          code |-> 0, out |-> NoOut]

NoRaw == [kind |-> "absent", n |-> 0]

NoReq == [pc |-> "idle", query |-> <<>>, raw |-> NoRaw,
          limit |-> [nan |-> FALSE, n |-> 0],
          status |-> 0, results |-> <<>>, at |-> 0]

\* the process after app.listen: it accepts requests
Listening == [pc |-> "listening", dbUp |-> TRUE, code |-> 0]

NoCalls == <<>>

NoSeed == [pc |-> "none", i |-> 0, runs |-> 0, first |-> <<>>]

\* no vectorSearch call has been made
NoChild == [proc |-> "none", code |-> 0, written |-> 0, pipe |-> <<>>,
            errWritten |-> 0, errPipe |-> <<>>,
            output |-> <<>>, error |-> <<>>,
            promise |-> "none", value |-> <<>>, why |-> "none",
            reason |-> <<>>, settled |-> 0]

\* the LinkUpApp object after its constructor
EmptyContainer == [kind |-> "empty", query |-> "", n |-> 0]

NoApp == [input |-> "", timer |-> FALSE, isLoading |-> FALSE,
          currentQuery |-> "", fetch |-> <<>>, loading |-> FALSE,
          noResults |-> FALSE, container |-> EmptyContainer]

NoRoute == [pc |-> "idle", name |-> "none", p |-> <<>>, q |-> <<>>,
            raw |-> NoRaw, status |-> 0, docs |-> <<>>]

\* the module is loaded: app is built, nothing has been received
InitApp ==
    /\ server \in Servers
    /\ alive = TRUE
    /\ clock = 0
    /\ IF server = "lexical"
       THEN catalog \in Catalogs /\ index = <<>>
       ELSE catalog = <<>> /\ index \in Indexes
    /\ req = NoReq
    /\ eng = NoEng
    /\ prev = NoReq
    /\ calls = NoCalls
    /\ seed = NoSeed
    /\ route = NoRoute
    /\ child = NoChild
    /\ app = NoApp

\* the servers are studied from the moment they listen
Init == InitApp /\ boot = Listening

Respond(status, results) ==
    req' = [req EXCEPT !.pc = "done", !.status = status,
                       !.results = results, !.at = clock]

\* the handler up to its first await: parse the limit, validate the
\* query, then start the catalog read or spawn the engine
Accept(q, raw) ==
    LET limit == ParseLimit(raw)
        r == [NoReq EXCEPT !.query = q, !.raw = raw, !.limit = limit]
    IN  IF InvalidQuery(q)
        THEN /\ req' = [r EXCEPT !.pc = "done", !.status = 400, !.at = clock]
             /\ eng' = NoEng
        ELSE IF server = "lexical"
        THEN /\ req' = [r EXCEPT !.pc = "find"]
             /\ eng' = NoEng
        ELSE /\ req' = [r EXCEPT !.pc = "await"]
             /\ eng' = [NoEng EXCEPT !.pc = "spawned",
                                     !.args = HandlerCall(q, limit)]

Receive(q, raw) ==
    /\ alive
    /\ boot.pc = "listening"
    /\ req.pc = "idle"
    /\ Accept(q, raw)
    /\ UNCHANGED <<server, alive, catalog, index, clock, prev, aux>>

\* lexical handler after await Opportunity.find().limit(500).exec()
LexRespond ==
    /\ alive
    /\ req.pc = "find"
    /\ Respond(200, LexicalResults(catalog, req.query, req.limit, clock))
    /\ UNCHANGED <<server, alive, catalog, index, clock, eng, prev, aux>>

\* the child process starts running the engine
ProcStart ==
    /\ alive
    /\ eng.pc = "spawned"
    /\ eng' = [eng EXCEPT !.pc = "running", !.threshold = eng.args.threshold]
    /\ UNCHANGED <<server, alive, catalog, index, clock, req, prev, aux>>

\* spawn fails: the child emits 'error', which has no listener, so the
\* error is thrown and the server process dies
ProcSpawnError ==
    /\ alive
    /\ eng.pc = "spawned"
    /\ eng' = [eng EXCEPT !.pc = "error"]
    /\ alive' = FALSE
    /\ UNCHANGED <<server, catalog, index, clock, req, prev, aux>>

EngineRelax(d) ==
    /\ alive
    /\ eng.pc = "running"
    /\ ~RelaxDone(index, eng.args, eng.threshold)
    /\ eng' = [eng EXCEPT !.threshold = Relaxed(eng.threshold, d)]
    /\ UNCHANGED <<server, alive, catalog, index, clock, req, prev, aux>>

EngineEmit(withSim, withEmb) ==
    /\ alive
    /\ eng.pc = "running"
    /\ RelaxDone(index, eng.args, eng.threshold)
    /\ eng' = [eng EXCEPT !.pc = "exited", !.code = 0,
                 !.out = [kind |-> "array",
                          items |-> EngineOutput(index, eng.args,
                                       eng.threshold, withSim, withEmb)]]
    /\ UNCHANGED <<server, alive, catalog, index, clock, req, prev, aux>>

\* the engine fails (embedding provider unavailable, timeout, ...) and
\* exits with a non-zero code
EngineFail ==
    /\ alive
    /\ eng.pc = "running"
    /\ eng' = [eng EXCEPT !.pc = "exited", !.code = 1]
    /\ UNCHANGED <<server, alive, catalog, index, clock, req, prev, aux>>

\* the engine exits with code 0 but prints something else than a JSON array
EngineGarbage(kind) ==
    /\ alive
    /\ eng.pc = "running"
    /\ eng' = [eng EXCEPT !.pc = "exited", !.code = 0,
                          !.out = [kind |-> kind, items |-> <<>>]]
    /\ UNCHANGED <<server, alive, catalog, index, clock, req, prev, aux>>

\* pythonProcess.on('close'), then the handler after await vectorSearch
OnClose ==
    /\ alive
    /\ eng.pc = "exited"
    /\ req.pc = "await"
    /\ IF eng.code # 0 THEN Respond(500, <<>>)
       ELSE IF ~ParseOK(eng.out) THEN Respond(500, <<>>)
       ELSE IF ~IsArray(eng.out) THEN Respond(500, <<>>)
       ELSE Respond(200, Format(server, eng.out.items))
    /\ eng' = [eng EXCEPT !.pc = "reaped"]
    /\ UNCHANGED <<server, alive, catalog, index, clock, prev, aux>>

\* the response has been sent; the server takes the next request
NextRequest ==
    /\ alive
    /\ req.pc = "done"
    /\ req' = NoReq
    /\ eng' = NoEng
    /\ UNCHANGED <<server, alive, catalog, index, clock, prev, aux>>

\* Date.now() advances; only scoreOpportunity reads it, so time is left
\* out on the vector servers, where nothing observes it
Tick ==
    /\ server = "lexical"
    /\ clock < MaxClock
    /\ clock' = clock + 1
    /\ UNCHANGED <<server, alive, catalog, index, req, eng, prev, aux>>

Next ==
    \/ \E q \in Queries, raw \in RawLimits : Receive(q, raw)
    \/ LexRespond
    \/ ProcStart
    \/ ProcSpawnError
    \/ \E d \in RelaxSteps : EngineRelax(d)
    \/ \E ws \in BOOLEAN, we \in BOOLEAN : EngineEmit(ws, we)
    \/ EngineFail
    \/ \E k \in {"text", "object"} : EngineGarbage(k)
    \/ OnClose
    \/ NextRequest
    \/ Tick

Spec == Init /\ [][Next]_vars

----------------------------------------------------------------------------
(* Repeated requests on the lexical server: the client sends the request   *)
(* it has just been answered once more; prev keeps the earlier exchange.   *)

Repeat ==
    /\ alive
    /\ req.pc = "done"
    /\ prev' = req
    /\ Accept(req.query, req.raw)
    /\ UNCHANGED <<server, alive, catalog, index, clock, aux>>

InitRepeat == Init /\ server = "lexical"

NextRepeat ==
    \/ \E q \in Queries, raw \in RawLimits : Receive(q, raw)
    \/ LexRespond
    \/ Repeat
    \/ Tick

SpecRepeat == InitRepeat /\ [][NextRepeat]_vars

----------------------------------------------------------------------------
(* Liveness: the event loop runs every callback that is ready (the catalog *)
(* read resolves, the close event is delivered, the spawn either starts    *)
(* the child or reports its failure).  Nothing makes the child process     *)
(* itself progress: vectorSearch sets no timer and never kills it.         *)

\* one document at most is enough for a request to stay pending
InitLive == Init /\ Len(catalog) <= 1 /\ Len(index) <= 1

SpecLive ==
    /\ InitLive
    /\ [][Next]_vars
    /\ WF_vars(LexRespond)
    /\ WF_vars(OnClose)
    /\ WF_vars(ProcStart \/ ProcSpawnError)

----------------------------------------------------------------------------
(* Requests whose query text is white space only.                          *)

NextBlank ==
    \/ \E q \in BlankQueries, raw \in RawLimits : Receive(q, raw)
    \/ Next

SpecBlank == InitLive /\ [][NextBlank]_vars

----------------------------------------------------------------------------
(* Process start-up: the full and the lexical server call app.listen in    *)
(* the then-branch of mongoose.connect and exit with code 1 in its catch;  *)
(* the demo server calls app.listen at module level.                       *)

Loaded == [pc |-> "load", dbUp |-> FALSE, code |-> 0]

StartConnect ==
    /\ server \in {"full", "lexical"}
    /\ boot.pc = "load"
    /\ boot' = [boot EXCEPT !.pc = "connecting"]
    /\ UNCHANGED <<serverVars, calls, seed, route, client>>

\* .then(() => app.listen(port, ...))
ConnectOK ==
    /\ boot.pc = "connecting"
    /\ boot' = [boot EXCEPT !.pc = "listening", !.dbUp = TRUE]
    /\ UNCHANGED <<serverVars, calls, seed, route, client>>

\* .catch(err => process.exit(1))
ConnectFail ==
    /\ boot.pc = "connecting"
    /\ boot' = [boot EXCEPT !.pc = "exited", !.code = 1]
    /\ alive' = FALSE
    /\ UNCHANGED <<server, catalog, index, clock, req, eng, prev, calls, seed, route, client>>

\* app.listen(port, host, ...) with no connection attempted before it
DemoListen ==
    /\ server = "demo"
    /\ boot.pc = "load"
    /\ boot' = [boot EXCEPT !.pc = "listening"]
    /\ UNCHANGED <<serverVars, calls, seed, route, client>>

InitStart ==
    /\ InitApp
    /\ Len(catalog) <= 1
    /\ Len(index) <= 1
    /\ boot = Loaded

NextStart ==
    \/ StartConnect
    \/ ConnectOK
    \/ ConnectFail
    \/ DemoListen
    \/ Next

SpecStart == InitStart /\ [][NextStart]_vars

----------------------------------------------------------------------------
(* The /api/opportunities router, mounted next to the semantic-search      *)
(* handler on the same collection.  An optional request parameter is <<>>  *)
(* when absent and <<w>> when present; so is an optional document field.   *)

RouteDocs ==
    {[text |-> t, cats |-> c, last_updated |-> <<-2>>,
      age_range |-> x, location |-> y] :
        t \in {<<"swim">>, <<"art">>}, c \in {<<>>, <<"arts">>},
        <<x, y>> \in {<< <<>>, <<>> >>, << <<"teens">>, <<"pool">> >>}}

RouteCatalogs == UNION {[1..n -> RouteDocs] : n \in 0..MaxDocs}

RouteParams == {<<>>, <<"Art">>, <<"teens">>, <<"pool">>}

\* limits of the list route; a negative limit is not sent
ListRaws == {r \in RawLimits : r.kind # "num" \/ r.n >= 0}

RouteRequests ==
    {[name |-> "list", p |-> <<>>, q |-> <<>>, raw |-> r] : r \in ListRaws}
    \cup {[name |-> n, p |-> <<>>, q |-> q, raw |-> NoRaw] :
            n \in {"search", "by-location"}, q \in RouteParams}
    \cup {[name |-> "by-category", p |-> p, q |-> <<>>, raw |-> NoRaw] :
            p \in RouteParams}
    \cup {[name |-> n, p |-> p, q |-> q, raw |-> NoRaw] :
            n \in {"by-org", "by-age"},
            p \in {<<>>, <<"art">>, <<"teens">>}, q \in {<<>>, <<"Art">>}}

\* parseInt(req.query.limit, 10) || 50
ListLimit(raw) == IF raw.kind = "num" /\ raw.n # 0 THEN raw.n ELSE ListDefault

\* new RegExp(q, 'i') tested on an optional field
ReMatch(q, field) ==
    \E i \in 1..Len(field) : IsSubstr(Lower(q[1]), Lower(field[i]))

\* the filter object each route hands to Opportunity.find
RouteFilter(r, doc) ==
    CASE r.name = "list" -> TRUE
      [] r.name = "search" -> ReMatch(r.q, doc.text)
      [] r.name = "by-org" ->
            IF r.p # <<>> THEN doc.text[1] = r.p[1]
            ELSE IF r.q # <<>> THEN ReMatch(r.q, <<doc.text[1]>>)
            ELSE TRUE
      [] r.name = "by-category" ->
            \E i \in 1..Len(doc.cats) : Lower(doc.cats[i]) = Lower(r.p[1])
      [] r.name = "by-location" -> ReMatch(r.q, doc.location)
      [] r.name = "by-age" ->
            IF r.p # <<>> THEN doc.age_range = r.p
            ELSE ReMatch(r.q, doc.age_range)

\* the guard that answers 400 before the collection is read
RouteInvalid(r) ==
    CASE r.name = "search" -> r.q = <<>>
      [] r.name = "by-category" -> r.p = <<>>
      [] r.name = "by-location" -> r.q = <<>>
      [] r.name = "by-age" -> r.p = <<>> /\ r.q = <<>>
      [] OTHER -> FALSE

Reverse(s) == [i \in 1..Len(s) |-> s[Len(s) + 1 - i]]

\* positions of the documents find returns; the list route sorts by
\* createdAt descending, the reverse of the insertion order, then limits
RouteFind(cat, r) ==
    LET ids == [i \in 1..Len(cat) |-> i]
        hit == SelectIdx(ids, [i \in 1..Len(cat) |-> RouteFilter(r, cat[i])])
    IN  IF r.name = "list" THEN Take(Reverse(hit), ListLimit(r.raw)) ELSE hit

RouteReceive(r) ==
    /\ alive
    /\ boot.pc = "listening"
    /\ route.pc = "idle"
    /\ route' = [NoRoute EXCEPT !.name = r.name, !.p = r.p, !.q = r.q,
                                !.raw = r.raw,
                                !.pc = IF RouteInvalid(r) THEN "done"
                                       ELSE "find",
                                !.status = IF RouteInvalid(r) THEN 400 ELSE 0]
    /\ UNCHANGED <<serverVars, boot, calls, seed, client>>

\* a route whose find also deletes what it returned
RouteRespondRemoving ==
    /\ alive
    /\ route.pc = "find"
    /\ route' = [route EXCEPT !.pc = "done", !.status = 200,
                              !.docs = RouteFind(catalog, route)]
    /\ catalog' = SelectIdx(catalog,
                     [i \in 1..Len(catalog) |-> ~RouteFilter(route, catalog[i])])
    /\ UNCHANGED <<server, alive, index, clock, req, eng, prev,
                   boot, calls, seed, client>>

\* after await Opportunity.find(...).exec(): res.json(docs)
RouteRespond ==
    /\ alive
    /\ route.pc = "find"
    /\ route' = [route EXCEPT !.pc = "done", !.status = 200,
                              !.docs = RouteFind(catalog, route)]
    /\ UNCHANGED <<serverVars, boot, calls, seed, client>>

RouteNext ==
    /\ route.pc = "done"
    /\ route' = NoRoute
    /\ UNCHANGED <<serverVars, boot, calls, seed, client>>

InitRoutes ==
    /\ server = "lexical"
    /\ alive = TRUE
    /\ clock = 0
    /\ catalog \in RouteCatalogs
    /\ index = <<>>
    /\ req = NoReq
    /\ eng = NoEng
    /\ prev = NoReq
    /\ boot = Listening
    /\ calls = NoCalls
    /\ seed = NoSeed
    /\ route = NoRoute
    /\ child = NoChild
    /\ app = NoApp

NextRoutes ==
    \/ \E q \in Queries : Receive(q, NoRaw)
    \/ LexRespond
    \/ NextRequest
    \/ \E r \in RouteRequests : RouteReceive(r)
    \/ RouteRespond
    \/ RouteNext

SpecRoutes == InitRoutes /\ [][NextRoutes]_vars

----------------------------------------------------------------------------
(* Scoring on the lexical server, one document at a time: several text     *)
(* fields and tags, repeated and blank query words, dates in the future.   *)

ScoreDates == {<<>>, <<-12>>, <<-2>>, <<0>>, <<MaxClock + 1>>}

ScoreDocs ==
    [text : {<<"swim">>, <<"Art">>, <<"arts", "swim">>},
     cats : {<<>>, <<"arts">>, <<"arts", "art">>, <<"swim", "Art">>},
     last_updated : ScoreDates]

ScoreQueries ==
    {<<"Art", "swim">>, <<"art", "art">>, <<"swim">>, <<"arts">>,
     <<"chess">>, <<"Art", " ", "arts">>}

InitScore ==
    /\ server = "lexical"
    /\ alive = TRUE
    /\ clock = 0
    /\ catalog \in {<<d>> : d \in ScoreDocs}
    /\ index = <<>>
    /\ req = NoReq
    /\ eng = NoEng
    /\ prev = NoReq
    /\ boot = Listening
    /\ calls = NoCalls
    /\ seed = NoSeed
    /\ route = NoRoute
    /\ child = NoChild
    /\ app = NoApp

NextScore ==
    \/ \E q \in ScoreQueries : Receive(q, NoRaw)
    \/ LexRespond
    \/ NextRequest
    \/ Tick

SpecScore == InitScore /\ [][NextScore]_vars

----------------------------------------------------------------------------
(* Concurrent requests on the vector servers.  Every call of vectorSearch  *)
(* spawns its own child and keeps output and error in variables of its     *)
(* own closure; the event loop runs the callbacks of all calls in any      *)
(* order.  The child writes its JSON text in MaxChunks pieces; a piece     *)
(* records the child it comes from and its position in the text.           *)

ConcQueries == {<<>>, <<"Art">>, <<"swim">>}

\* what the engine prints for a query
Printed(q) ==
    LET item(i) == [id |-> i, embedding |-> FALSE, similarity |-> <<80>>]
    IN  IF q = <<"Art">> THEN <<item(1)>> ELSE <<item(2), item(1)>>

NoCall == [pc |-> "idle", query |-> <<>>, proc |-> "none", code |-> 0,
           sent |-> 0, output |-> <<>>, error |-> <<>>,
           status |-> 0, results |-> <<>>]

\* JSON.parse(output) succeeds on the whole text of one child
ParsesAs(output, f) ==
    output = [k \in 1..MaxChunks |-> [from |-> f, k |-> k]]

Parses(output) == \E f \in 1..MaxCalls : ParsesAs(output, f)

Parsed(output) == Printed(calls[output[1].from].query)

\* the handler up to await vectorSearch(...): validation, then spawn
CallReceive(r, q, spawned) ==
    /\ alive
    /\ calls[r].pc = "idle"
    /\ calls' = [calls EXCEPT ![r] =
          IF InvalidQuery(q)
          THEN [NoCall EXCEPT !.pc = "done", !.status = 400]
          ELSE [NoCall EXCEPT !.pc = "await", !.query = q,
                   !.proc = IF spawned THEN "running" ELSE "failed"]]
    /\ UNCHANGED <<serverVars, boot, seed, route, client>>

\* the child could not be started: its 'error' event has no listener
CallSpawnError(r) ==
    /\ alive
    /\ calls[r].proc = "failed"
    /\ alive' = FALSE
    /\ UNCHANGED <<server, catalog, index, clock, req, eng, prev, aux>>

\* one buffer shared by all the calls in flight
AppendOutputShared(cs, r, piece) ==
    [o \in 1..MaxCalls |->
        IF cs[o].pc = "await"
        THEN [cs[o] EXCEPT !.output = Append(@, piece)]
        ELSE cs[o]]

\* output += data.toString() in the closure of call r
AppendOutput(cs, r, piece) == [cs EXCEPT ![r].output = Append(@, piece)]

\* pythonProcess.stdout.on('data')
OnStdout(r) ==
    /\ alive
    /\ calls[r].proc = "running"
    /\ calls[r].sent < MaxChunks
    /\ calls' = AppendOutput([calls EXCEPT ![r].sent = @ + 1], r,
                             [from |-> r, k |-> calls[r].sent + 1])
    /\ UNCHANGED <<serverVars, boot, seed, route, client>>

\* pythonProcess.stderr.on('data')
OnStderr(r) ==
    /\ alive
    /\ calls[r].proc = "running"
    /\ calls[r].error = <<>>
    /\ calls' = [calls EXCEPT ![r].error = Append(@, [from |-> r])]
    /\ UNCHANGED <<serverVars, boot, seed, route, client>>

\* the child exits and closes its streams
ProcExit(r, code) ==
    /\ alive
    /\ calls[r].proc = "running"
    /\ calls' = [calls EXCEPT ![r].proc = "exited", ![r].code = code]
    /\ UNCHANGED <<serverVars, boot, seed, route, client>>

\* pythonProcess.on('close'), then the handler after await vectorSearch;
\* the promise is settled and the buffers of the closure are dropped
CallClose(r) ==
    /\ alive
    /\ calls[r].pc = "await"
    /\ calls[r].proc = "exited"
    /\ calls' = [calls EXCEPT ![r] =
          IF calls[r].code # 0 \/ ~Parses(calls[r].output)
          THEN [@ EXCEPT !.pc = "done", !.status = 500,
                   !.output = <<>>, !.error = <<>>]
          ELSE [@ EXCEPT !.pc = "done", !.status = 200,
                   !.output = <<>>, !.error = <<>>,
                   !.results = Format(server, Parsed(calls[r].output))]]
    /\ UNCHANGED <<serverVars, boot, seed, route, client>>

InitConc ==
    /\ server \in {"full", "demo"}
    /\ alive = TRUE
    /\ clock = 0
    /\ catalog = <<>>
    /\ index = <<>>
    /\ req = NoReq
    /\ eng = NoEng
    /\ prev = NoReq
    /\ boot = Listening
    /\ calls = [r \in 1..MaxCalls |-> NoCall]
    /\ seed = NoSeed
    /\ route = NoRoute
    /\ child = NoChild
    /\ app = NoApp

NextConc ==
    \E r \in 1..MaxCalls :
        \/ \E q \in ConcQueries, ok \in BOOLEAN : CallReceive(r, q, ok)
        \/ CallSpawnError(r)
        \/ OnStdout(r)
        \/ OnStderr(r)
        \/ \E code \in {0, 1} : ProcExit(r, code)
        \/ CallClose(r)

SpecConc == InitConc /\ [][NextConc]_vars

----------------------------------------------------------------------------
(* The seed script db/seed.js: main() upserts every sample entry on the    *)
(* key (organization_name, activity_name) and disconnects.  The schema is  *)
(* declared with timestamps, so mongoose stamps createdAt on insert and    *)
(* updatedAt on every findOneAndUpdate.  Runs follow one another.          *)

SeedEntries ==
    <<[organization_name |-> "Seattle Art Center",
       activity_name |-> "Creative Expressions: After-School Arts"],
      [organization_name |-> "Seattle Youth Soccer League",
       activity_name |-> "Seattle Youth Soccer League"],
      [organization_name |-> "Seattle Community Center",
       activity_name |-> "STEM Explorers Club"]>>

\* the key of a record that no seed entry has
OtherKey == [organization_name |-> "Seattle Art Center",
             activity_name |-> "STEM Explorers Club"]

KeyOf(doc) == [organization_name |-> doc.organization_name,
               activity_name |-> doc.activity_name]

\* a record written before the script ran, with other field values
OldDoc(key) == [organization_name |-> key.organization_name,
                activity_name |-> key.activity_name,
                fields |-> "old", createdAt |-> 0, updatedAt |-> 0]

\* collections with at most one record per key
SeedCatalogs ==
    LET all == [i \in 1..Len(SeedEntries) + 1 |->
                  IF i = 1 THEN OldDoc(OtherKey)
                  ELSE OldDoc(SeedEntries[i - 1])]
    IN  {SelectIdx(all, keep) : keep \in [1..Len(all) -> BOOLEAN]}

Matches(cat, key) == {i \in 1..Len(cat) : KeyOf(cat[i]) = key}

\* an insert of the entry whether or not its key is present
InsertAlways(cat, entry, now) ==
    Append(cat, [organization_name |-> entry.organization_name,
                 activity_name |-> entry.activity_name,
                 fields |-> "seed", createdAt |-> now, updatedAt |-> now])

\* Opportunity.findOneAndUpdate(query, {$set: ...}, {upsert: true, ...})
Upsert(cat, entry, now) ==
    IF Matches(cat, entry) = {}
    THEN Append(cat, [organization_name |-> entry.organization_name,
                      activity_name |-> entry.activity_name,
                      fields |-> "seed", createdAt |-> now, updatedAt |-> now])
    ELSE LET i == CHOOSE m \in Matches(cat, entry) :
                      \A n \in Matches(cat, entry) : m <= n
         IN  [cat EXCEPT ![i].fields = "seed", ![i].updatedAt = now]

\* main() is started: mongoose.connect
SeedStart ==
    /\ seed.pc \in {"none", "finished"}
    /\ seed.runs < MaxRuns
    /\ seed' = [seed EXCEPT !.pc = "running", !.i = 1]
    /\ UNCHANGED <<serverVars, boot, calls, route, client>>

\* one turn of the loop over the entries
SeedUpsert ==
    /\ seed.pc = "running"
    /\ seed.i <= Len(SeedEntries)
    /\ catalog' = Upsert(catalog, SeedEntries[seed.i], clock)
    /\ seed' = [seed EXCEPT !.i = @ + 1]
    /\ UNCHANGED <<server, alive, index, clock, req, eng, prev,
                   boot, calls, route, client>>

\* mongoose.disconnect; first keeps the collection left by the first run
SeedFinish ==
    /\ seed.pc = "running"
    /\ seed.i > Len(SeedEntries)
    /\ seed' = [seed EXCEPT !.pc = "finished", !.runs = @ + 1,
                            !.first = IF seed.runs = 0 THEN <<catalog>>
                                      ELSE @]
    /\ UNCHANGED <<serverVars, boot, calls, route, client>>

InitSeed ==
    /\ server = "lexical"
    /\ alive = TRUE
    /\ clock = 0
    /\ catalog \in SeedCatalogs
    /\ index = <<>>
    /\ req = NoReq
    /\ eng = NoEng
    /\ prev = NoReq
    /\ boot = Listening
    /\ calls = NoCalls
    /\ seed = NoSeed
    /\ route = NoRoute
    /\ child = NoChild
    /\ app = NoApp

NextSeed ==
    \/ SeedStart
    \/ SeedUpsert
    \/ SeedFinish
    \/ Tick

SpecSeed == InitSeed /\ [][NextSeed]_vars

----------------------------------------------------------------------------
(* One call of vectorSearch in detail.  The child writes its text to       *)
(* stdout in up to MaxChunks pieces and may write to stderr; the pipes     *)
(* deliver the pieces in order as 'data' events, also after the child has  *)
(* exited; Node emits 'close' once the child has ended and both streams    *)
(* are drained.  The promise is settled by the 'close' listener.           *)

Piece(k) == [from |-> 1, k |-> k]

\* spawn('python3', [...]) inside new Promise(...)
CallVectorSearch ==
    /\ child.proc = "none"
    /\ child' = [NoChild EXCEPT !.proc = "running", !.promise = "pending"]
    /\ UNCHANGED <<serverVars, boot, calls, seed, route, app>>

ChildWrite ==
    /\ child.proc = "running"
    /\ child.written < MaxChunks
    /\ child' = [child EXCEPT !.written = @ + 1,
                              !.pipe = Append(@, Piece(child.written + 1))]
    /\ UNCHANGED <<serverVars, boot, calls, seed, route, app>>

ChildWriteErr ==
    /\ child.proc = "running"
    /\ child.errWritten < MaxChunks
    /\ child' = [child EXCEPT !.errWritten = @ + 1,
                              !.errPipe = Append(@, Piece(child.errWritten + 1))]
    /\ UNCHANGED <<serverVars, boot, calls, seed, route, app>>

ChildExit(code) ==
    /\ child.proc = "running"
    /\ child' = [child EXCEPT !.proc = "exited", !.code = code]
    /\ UNCHANGED <<serverVars, boot, calls, seed, route, app>>

\* pythonProcess.stdout.on('data'): output += data.toString()
OnStdoutData ==
    /\ child.pipe # <<>>
    /\ child' = [child EXCEPT !.output = Append(@, Head(child.pipe)),
                              !.pipe = Tail(@)]
    /\ UNCHANGED <<serverVars, boot, calls, seed, route, app>>

\* pythonProcess.stderr.on('data'): error += data.toString()
OnStderrData ==
    /\ child.errPipe # <<>>
    /\ child' = [child EXCEPT !.error = Append(@, Head(child.errPipe)),
                              !.errPipe = Tail(@)]
    /\ UNCHANGED <<serverVars, boot, calls, seed, route, app>>

\* the body of the 'close' listener; resolve and reject have no effect on
\* a promise that is settled
Settle(c) ==
    IF c.promise # "pending" THEN c
    ELSE IF c.code # 0
    THEN [c EXCEPT !.promise = "rejected", !.why = "exit",
                   !.reason = c.error, !.settled = @ + 1]
    ELSE IF ParsesAs(c.output, 1)
    THEN [c EXCEPT !.promise = "resolved", !.value = c.output,
                   !.settled = @ + 1]
    ELSE [c EXCEPT !.promise = "rejected", !.why = "parse", !.settled = @ + 1]

\* a listener on 'exit': it runs when the child ends, streams drained or not
OnExitEvent ==
    /\ child.proc = "exited"
    /\ child' = Settle([child EXCEPT !.proc = "closed"])
    /\ UNCHANGED <<serverVars, boot, calls, seed, route, app>>

\* pythonProcess.on('close', (code) => ...)
OnCloseEvent ==
    /\ child.proc = "exited"
    /\ child.pipe = <<>>
    /\ child.errPipe = <<>>
    /\ child' = Settle([child EXCEPT !.proc = "closed"])
    /\ UNCHANGED <<serverVars, boot, calls, seed, route, app>>

\* the promise has been consumed; the next call starts afresh
CallReturn ==
    /\ child.proc = "closed"
    /\ child' = NoChild
    /\ UNCHANGED <<serverVars, boot, calls, seed, route, app>>

InitSettle ==
    /\ server \in {"full", "demo"}
    /\ alive = TRUE
    /\ clock = 0
    /\ catalog = <<>>
    /\ index = <<>>
    /\ req = NoReq
    /\ eng = NoEng
    /\ prev = NoReq
    /\ boot = Listening
    /\ calls = NoCalls
    /\ seed = NoSeed
    /\ route = NoRoute
    /\ child = NoChild
    /\ app = NoApp

NextSettle ==
    \/ CallVectorSearch
    \/ ChildWrite
    \/ ChildWriteErr
    \/ \E code \in {0, 1} : ChildExit(code)
    \/ OnStdoutData
    \/ OnStderrData
    \/ OnCloseEvent
    \/ CallReturn

SpecSettle == InitSettle /\ [][NextSettle]_vars

----------------------------------------------------------------------------
(* The page script public/script.js.  app.input is the text of the search  *)
(* box, app.timer the pending debounce timeout, app.fetch the requests in  *)
(* flight, app.loading and app.noResults the visibility of the two         *)
(* indicators, app.container what resultsContainer holds.  The server that *)
(* serves the page answers the fetch.                                      *)

\* texts of the search box: empty, blank, shorter than three, two queries
Inputs == {"", " ", "ab", "art", "swim"}

\* the data-query attributes of the suggestion tags
TagQueries == {"art", "swim"}

\* value.trim()
Trim(t) == IF t = " " THEN "" ELSE t

\* value.trim().length > 2
LongEnough(t) == Trim(t) \in {"art", "swim"}

\* what the fetch brings back: status 0 stands for a rejected fetch; the
\* demo server sends the array of results, the full and the lexical server
\* send an object that holds it
ServerBody(srv) == IF srv = "demo" THEN "array" ELSE "object"

Responses(srv) ==
    {[status |-> 200, body |-> ServerBody(srv), n |-> n] : n \in 0..MaxCards}
    \cup {[status |-> st, body |-> "object", n |-> 0] : st \in {0, 400, 500}}

ClearResults(a) ==
    [a EXCEPT !.container = EmptyContainer, !.noResults = FALSE,
              !.loading = FALSE]

ShowLoading(a) ==
    [a EXCEPT !.isLoading = TRUE, !.loading = TRUE, !.noResults = FALSE,
              !.container = EmptyContainer]

HideLoading(a) == [a EXCEPT !.isLoading = FALSE, !.loading = FALSE]

ShowNoResults(a) ==
    [a EXCEPT !.noResults = TRUE, !.container = EmptyContainer]

ShowError(a) ==
    [HideLoading(a) EXCEPT
        !.container = [kind |-> "error", query |-> "", n |-> 0],
        !.noResults = FALSE]

\* displayResults inside the try of performSearch: results.map throws on a
\* value that is not an array and the catch calls showError
DisplayResults(a, q, resp) ==
    LET h == HideLoading(a)
    IN  IF resp.body = "array" /\ resp.n = 0 THEN ShowNoResults(h)
        ELSE IF resp.body = "array"
        THEN [h EXCEPT !.container = [kind |-> "cards", query |-> q,
                                      n |-> resp.n],
                       !.noResults = FALSE]
        ELSE ShowError(h)

\* performSearch started while a search is in flight as well
PerformSearchUnguarded(a) ==
    LET query == Trim(a.input)
    IN  IF query = "" THEN ClearResults(a)
        ELSE [ShowLoading(a) EXCEPT !.currentQuery = query,
                                    !.fetch = Append(@, query)]

\* performSearch up to its await
PerformSearch(a) ==
    LET query == Trim(a.input)
    IN  IF query = "" THEN ClearResults(a)
        ELSE IF a.isLoading THEN a
        ELSE [ShowLoading(a) EXCEPT !.currentQuery = query,
                                    !.fetch = Append(@, query)]

\* the input event: the pending timeout is cleared and a new one set
TypeText(t) ==
    /\ t # app.input
    /\ app' = [app EXCEPT !.input = t, !.timer = TRUE]
    /\ UNCHANGED <<serverVars, boot, calls, seed, route, child>>

\* the timeout fires 500 ms after the last input event
TimerFire ==
    /\ app.timer
    /\ app' = LET a == [app EXCEPT !.timer = FALSE]
              IN  IF LongEnough(a.input) THEN PerformSearch(a)
                  ELSE IF Trim(a.input) = "" THEN ClearResults(a)
                  ELSE a
    /\ UNCHANGED <<serverVars, boot, calls, seed, route, child>>

\* click on the search button
ClickSearch ==
    /\ app' = PerformSearch(app)
    /\ UNCHANGED <<serverVars, boot, calls, seed, route, child>>

\* keypress with e.key === 'Enter'
PressEnter ==
    /\ app' = PerformSearch(app)
    /\ UNCHANGED <<serverVars, boot, calls, seed, route, child>>

\* click on a suggestion tag
ClickTag(q) ==
    /\ app' = PerformSearch([app EXCEPT !.input = q])
    /\ UNCHANGED <<serverVars, boot, calls, seed, route, child>>

\* performSearch after its await: the fetch i has come back
FetchDone(i, resp) ==
    /\ i \in 1..Len(app.fetch)
    /\ app' = LET a == [app EXCEPT !.fetch =
                          SelectIdx(@, [j \in 1..Len(@) |-> j # i])]
              IN  IF resp.status # 200 THEN ShowError(a)
                  ELSE DisplayResults(a, app.fetch[i], resp)
    /\ UNCHANGED <<serverVars, boot, calls, seed, route, child>>

InitPage ==
    /\ server \in Servers
    /\ alive = TRUE
    /\ clock = 0
    /\ catalog = <<>>
    /\ index = <<>>
    /\ req = NoReq
    /\ eng = NoEng
    /\ prev = NoReq
    /\ boot = Listening
    /\ calls = NoCalls
    /\ seed = NoSeed
    /\ route = NoRoute
    /\ child = NoChild
    /\ app = NoApp

NextPage ==
    \/ \E t \in Inputs : TypeText(t)
    \/ TimerFire
    \/ ClickSearch
    \/ PressEnter
    \/ \E q \in TagQueries : ClickTag(q)
    \/ \E i \in 1..MaxCalls, resp \in Responses(server) : FetchDone(i, resp)

SpecPage == InitPage /\ [][NextPage]_vars

----------------------------------------------------------------------------
(* Properties *)

Answered == req.pc = "done"

OK200 == Answered /\ req.status = 200

VectorServer == server \in {"full", "demo"}

\* the limit in force: the caller's positive number, else the default 10
EffectiveLimit(limit) ==
    IF ~limit.nan /\ limit.n > 0 THEN limit.n ELSE DefaultLimit

AboveFloor == {i \in 1..Len(index) : index[i] >= Floor}

AboveStart == {i \in 1..Len(index) : index[i] >= StartThreshold}

ReturnedIds == {req.results[i].opportunity.id : i \in 1..Len(req.results)}

\* C1 (as stated): on the embedding path a catalog of at least min_results
\* items always yields at least min_results results.
C1_AtLeastMinResults ==
    (VectorServer /\ OK200 /\ Len(index) >= MinResults)
        => Len(req.results) >= MinResults

\* C1 (amended): on the embedding path the number of results is at least
\* the smallest of min_results, the limit in force and the number of
\* catalog items whose similarity is at or above the floor 0.
C1_AtLeastMinOfLimitAndFloor ==
    (VectorServer /\ OK200)
        => Len(req.results) >=
             Min(MinResults,
                 Min(EffectiveLimit(req.limit), Cardinality(AboveFloor)))

C1_Witness ==
    /\ VectorServer /\ OK200
    /\ Len(index) >= MinResults
    /\ Cardinality(AboveStart) < MinResults
    /\ EffectiveLimit(req.limit) >= MinResults
    /\ Cardinality(AboveFloor) >= MinResults
    /\ Len(req.results) >= MinResults

\* C2: in every successful response the scores are non-increasing from one
\* result to the next.
C2_ScoresNonIncreasing ==
    OK200 => \A i \in 1..Len(req.results) - 1 :
                req.results[i].score >= req.results[i + 1].score

\* C3: on the vector servers the score of every result is the similarity
\* of the catalog item it carries, whatever its position.
C3_ScoreIsSimilarity ==
    (VectorServer /\ OK200)
        => \A i \in 1..Len(req.results) :
              req.results[i].score = index[req.results[i].opportunity.id]

AllStale(cat, now) ==
    \A i \in 1..Len(cat) :
        \/ cat[i].last_updated = <<>>
        \/ now - cat[i].last_updated[1] >= RecencyMax

SameRequestAnswered ==
    /\ Answered
    /\ prev.pc = "done"
    /\ prev.query = req.query
    /\ prev.raw = req.raw

\* C4 (as stated): two requests with the same catalog, query and limit get
\* the same status, the same ordered results and the same scores, whenever
\* they are processed.
C4_SameAnswerAtAnyTime ==
    SameRequestAnswered
        => (req.status = prev.status /\ req.results = prev.results)

\* C4 (amended): two requests with the same catalog, query and limit get
\* the same ordered results and scores provided that, when the earlier one
\* is processed, every catalog item has no last-updated date or was updated
\* at least 300 days before.
C4_SameAnswerWhenStale ==
    (SameRequestAnswered /\ AllStale(catalog, prev.at))
        => (req.status = prev.status /\ req.results = prev.results)

C4_Witness ==
    /\ SameRequestAnswered
    /\ req.status = 200
    /\ req.at > prev.at
    /\ Len(catalog) >= 2
    /\ \E i \in 1..Len(catalog) : catalog[i].last_updated # <<>>
    /\ AllStale(catalog, prev.at)
    /\ req.results = prev.results

EngineFailed == eng.pc = "reaped" /\ eng.code # 0

\* C5: when the engine call fails, the request is still answered 200 by the
\* lexical fallback, with a non-empty list when the catalog is not empty.
C5_FallbackOnEngineFailure ==
    (VectorServer /\ Answered /\ EngineFailed)
        => (req.status = 200 /\ (Len(index) > 0 => req.results # <<>>))

\* C6: a non-zero exit code, output that is not JSON, or a process that
\* cannot be started is answered 500; an empty 200 only follows a
\* successful run that printed an empty list.
C6_FailureIsNot200 ==
    /\ (eng.pc = "reaped" /\ (eng.code # 0 \/ ~ParseOK(eng.out)))
          => (Answered /\ req.status = 500)
    /\ eng.pc = "error" => (Answered /\ req.status = 500)
    /\ (VectorServer /\ OK200 /\ req.results = <<>>)
          => (eng.code = 0 /\ eng.out.kind = "array" /\ eng.out.items = <<>>)

\* C7: a response never holds more results than the limit in force: the
\* caller's limit when it is a positive number, else the default 10.
C7_AtMostLimit ==
    OK200 => Len(req.results) <= EffectiveLimit(req.limit)

C7_Witness ==
    /\ server = "lexical" /\ OK200
    /\ Len(catalog) > DefaultLimit
    /\ (req.limit.nan \/ req.limit.n <= 0)
    /\ Len(req.results) = DefaultLimit

\* C8: no result of any response carries an embedding vector.
C8_NoEmbeddingInResponse ==
    OK200 => \A i \in 1..Len(req.results) :
                ~req.results[i].opportunity.embedding

\* C9: during one search the threshold only decreases, and it stays
\* between the floor 0 and the starting threshold 0.75 of the handlers.
C9_ThresholdOnlyDecreases ==
    [][/\ (eng'.pc \in {"running", "exited", "reaped"})
            => (eng'.threshold <= StartThreshold /\ eng'.threshold >= Floor)
       /\ (eng.pc = "running" /\ eng'.pc \in {"running", "exited"})
            => eng'.threshold <= eng.threshold]_vars

C9_Witness ==
    /\ eng.pc = "exited" /\ eng.code = 0 /\ eng.out.kind = "array"
    /\ eng.threshold < StartThreshold
    /\ eng.threshold > Floor
    /\ Len(eng.out.items) >= MinResults

\* C10: when fewer than min_results items meet the starting threshold, the
\* results are the most similar items, in order of similarity: no item left
\* out is more similar than a returned one.
C10_TopBySimilarity ==
    (VectorServer /\ OK200 /\ Cardinality(AboveStart) < MinResults)
        => /\ \A i \in 1..Len(req.results) - 1 :
                 index[req.results[i].opportunity.id]
                     >= index[req.results[i + 1].opportunity.id]
           /\ \A i \in ReturnedIds, j \in (1..Len(index)) \ ReturnedIds :
                 index[j] <= index[i]
           /\ Cardinality(ReturnedIds) = Len(req.results)

C10_Witness ==
    /\ VectorServer /\ OK200
    /\ Cardinality(AboveStart) = 1
    /\ Len(req.results) = MinResults
    /\ Len(index) > MinResults
    /\ index[1] < index[Len(index)]
    /\ \E j \in (1..Len(index)) \ ReturnedIds :
          \A i \in ReturnedIds : index[j] < index[i]

Pending == req.pc \in {"find", "await"}

\* C11: every accepted request is eventually answered, even when the
\* external process never exits or cannot be started.
C11_EveryRequestAnswered == Pending ~> Answered

\* C12: a request whose query text is missing or empty, also after
\* trimming white space, is answered 400 with no catalog read and no
\* external process spawned.
C12_BlankQueryRejected ==
    (req.pc # "idle" /\ Blank(req.query)) =>
        (Answered /\ req.status = 400 /\ eng = NoEng)

\* C13: with an empty catalog every search request with a query text is
\* answered successfully with an empty result list, never with an error.
C13_EmptyCatalogEmptyList ==
    (Answered /\ ~InvalidQuery(req.query) /\ catalog = <<>> /\ index = <<>>)
        => (req.status = 200 /\ req.results = <<>>)

\* C14: on every server the process listens, and so serves requests, only
\* after the catalog data source has been reached; when reaching it fails
\* the process exits with a failure code and has never listened.
C14_ListenOnlyAfterCatalog ==
    /\ (boot.pc = "listening" \/ req.pc # "idle") => boot.dbUp
    /\ boot.pc = "exited" => (boot.code = 1 /\ req.pc = "idle")

\* C15: no search or filter request changes the catalog: every step of
\* the semantic-search handler and of the /api/opportunities routes, in
\* any interleaving, leaves every record and every field as it was.
C15_RequestsKeepCatalog == [][catalog' = catalog /\ index' = index]_vars

\* both kinds of request have been served from a non-empty catalog
C15_Witness ==
    /\ OK200 /\ req.results # <<>>
    /\ route.pc = "done" /\ route.status = 200 /\ route.docs # <<>>
    /\ route.name = "by-age"

\* the words of the query as the claim counts them: lowercased, blanks
\* dropped, repetitions kept
QueryWord(j) == Lower(req.query[j])

WordPositions == {j \in 1..Len(req.query) : req.query[j] # " "}

\* the word at position j occurs in a name, a description or a tag
OccursInFields(opp, j) ==
    \/ \E i \in 1..Len(opp.text) : IsSubstr(QueryWord(j), Lower(opp.text[i]))
    \/ \E c \in 1..Len(opp.cats) : IsSubstr(QueryWord(j), Lower(opp.cats[c]))

ClaimedOverlap(opp) == Cardinality({j \in WordPositions : OccursInFields(opp, j)})

ClaimedTagBoost(opp) ==
    Cardinality({<<c, j>> \in (1..Len(opp.cats)) \X WordPositions :
                    IsSubstr(QueryWord(j), Lower(opp.cats[c]))})

\* C16: the score of every opportunity is overlap*10 + tagBoost*5 +
\* recencyBoost and is not negative, with overlap the number of query
\* words found in the haystack and tagBoost the number of (tag, word)
\* pairs with the word inside the tag; when no word occurs in any field
\* the score is the recency boost alone.
C16_ScoreFormula ==
    OK200 =>
        \A k \in 1..Len(req.results) :
            LET r == req.results[k]
                opp == catalog[r.opportunity.id]
                recency == RecencyBoost(opp, req.at)
            IN  /\ r.score = ClaimedOverlap(opp) * 10
                               + ClaimedTagBoost(opp) * 5 + recency
                /\ r.score >= 0
                /\ (\A j \in WordPositions : ~OccursInFields(opp, j))
                       => r.score = recency

\* a word found in a tag only, and a repeated word, have been scored
C16_Witness ==
    /\ OK200 /\ Len(req.results) = 1
    /\ req.query = <<"art", "art">>
    /\ catalog[1].text = <<"swim">> /\ catalog[1].cats = <<"arts", "art">>
    /\ req.results[1].score >= 40

\* C17: the recency boost inside every score lies between 0 and 10, also
\* for a last-updated date in the future; it is 10 for an item updated
\* now and 0 for an item with no date or one updated 300 days ago or more.
C17_RecencyWithinBounds ==
    OK200 =>
        \A k \in 1..Len(req.results) :
            LET r == req.results[k]
                opp == catalog[r.opportunity.id]
                boost == r.score - Overlap(opp, req.query) * OverlapWeight
                                 - TagBoost(opp, req.query) * TagWeight
            IN  /\ boost >= 0
                /\ boost <= RecencyMax
                /\ opp.last_updated = <<>> => boost = 0
                /\ opp.last_updated = <<req.at>> => boost = RecencyMax
                /\ (opp.last_updated # <<>>
                      /\ req.at - opp.last_updated[1] >= RecencyMax)
                       => boost = 0

\* C18: among results with equal score the order of the response is the
\* catalog insertion order: of two returned items with the same score the
\* one read first from the catalog comes first.
C18_TiesInCatalogOrder ==
    OK200 =>
        \A a, b \in 1..Len(req.results) :
            (a < b /\ req.results[a].score = req.results[b].score)
                => req.results[a].opportunity.id < req.results[b].opportunity.id

\* C19: concurrent requests do not serialize on the external call: while
\* one request waits for its process any other request can start its own
\* process, let it run and complete; and every response is built only from
\* the output of the request's own process, the buffers are never mixed.
C19_NoSerializationNoMixing ==
    \A r \in DOMAIN calls :
        /\ \A k \in 1..Len(calls[r].output) : calls[r].output[k].from = r
        /\ \A k \in 1..Len(calls[r].error) : calls[r].error[k].from = r
        /\ (calls[r].pc = "done" /\ calls[r].status = 200)
              => /\ calls[r].code = 0 /\ calls[r].sent = MaxChunks
                 /\ calls[r].results = Format(server, Printed(calls[r].query))
        /\ (calls[r].pc = "done" /\ calls[r].status = 500)
              => (calls[r].code # 0 \/ calls[r].sent < MaxChunks)
        /\ (alive /\ \E a \in DOMAIN calls \ {r} : calls[a].pc = "await")
              => /\ calls[r].pc = "idle" => ENABLED CallReceive(r, <<"Art">>, TRUE)
                 /\ (calls[r].proc = "running" /\ calls[r].sent < MaxChunks)
                       => ENABLED OnStdout(r)
                 /\ calls[r].proc = "running" => ENABLED ProcExit(r, 0)
                 /\ (calls[r].pc = "await" /\ calls[r].proc = "exited")
                       => ENABLED CallClose(r)

\* the second request has been answered from its own process while the
\* first is still waiting for its process, which has written one piece
C19_Witness ==
    /\ calls # NoCalls
    /\ calls[1].pc = "await" /\ calls[1].proc = "running"
    /\ calls[1].sent = 1
    /\ calls[2].pc = "done" /\ calls[2].status = 200
    /\ calls[2].query # calls[1].query

SeedDone == seed.pc = "finished"

OnePerKey ==
    \A i, j \in 1..Len(catalog) : KeyOf(catalog[i]) = KeyOf(catalog[j]) => i = j

AllSeeded ==
    \A e \in 1..Len(SeedEntries) :
        \E i \in 1..Len(catalog) :
            KeyOf(catalog[i]) = SeedEntries[e] /\ catalog[i].fields = "seed"

WithoutUpdatedAt(cat) ==
    [i \in 1..Len(cat) |->
        [organization_name |-> cat[i].organization_name,
         activity_name |-> cat[i].activity_name,
         fields |-> cat[i].fields, createdAt |-> cat[i].createdAt]]

\* C20 (as stated): after any number of runs of the seed script the
\* catalog has at most one record per key and one record for each seed
\* entry, and a second run leaves the catalog equal to the state after
\* the first run.
C20_SecondRunLeavesCatalogEqual ==
    SeedDone => (OnePerKey /\ AllSeeded /\ catalog = seed.first[1])

\* C20 (amended): the same, with the catalog after a later run equal to
\* the state after the first run in everything but the updatedAt stamps.
C20_SecondRunEqualButUpdatedAt ==
    /\ OnePerKey
    /\ SeedDone => /\ AllSeeded
                   /\ WithoutUpdatedAt(catalog) = WithoutUpdatedAt(seed.first[1])

\* a second run at a later time has finished on a catalog that held an
\* old record of a seed key and a record of another key
C20_Witness ==
    /\ SeedDone /\ seed.runs = 2
    /\ Len(catalog) = Len(SeedEntries) + 1
    /\ \E i \in 1..Len(catalog) : catalog[i].createdAt = 0
                                    /\ catalog[i].fields = "seed"
    /\ catalog # seed.first[1]

\* everything the child wrote to stdout and to stderr, in order
AllWritten == [k \in 1..child.written |-> Piece(k)]

AllErrWritten == [k \in 1..child.errWritten |-> Piece(k)]

\* C21: for every interleaving of the stdout-data, stderr-data and close
\* events of the child, the promise of vectorSearch settles exactly once
\* and only at the close event: it resolves with the parse of all stdout
\* chunks in arrival order when the exit code is 0 and that text parses,
\* and rejects otherwise, with the accumulated stderr text when the exit
\* code is not 0; it never resolves with partial output.
C21_SettlesOnceAtClose ==
    /\ child.promise \in {"resolved", "rejected"} <=> child.proc = "closed"
    /\ child.settled = (IF child.proc = "closed" THEN 1 ELSE 0)
    /\ child.promise = "resolved"
          <=> (child.proc = "closed" /\ child.code = 0
                 /\ ParsesAs(AllWritten, 1))
    /\ child.promise = "resolved" => child.value = AllWritten
    /\ (child.promise = "rejected" /\ child.code # 0)
          => (child.why = "exit" /\ child.reason = AllErrWritten)

\* the promise resolved with the whole text although stderr was written
C21_Witness ==
    /\ child.promise = "resolved"
    /\ Len(child.value) = MaxChunks
    /\ child.error # <<>>

\* C22: at most one search request is in flight at any time: a fetch is
\* issued only when isLoading is false, and isLoading is true from the
\* fetch until its results or its error have been handled.
C22_OneSearchInFlight ==
    /\ Len(app.fetch) = (IF app.isLoading THEN 1 ELSE 0)
    /\ app.isLoading => app.fetch = <<app.currentQuery>>

\* a search is in flight for one text while the box holds another text
\* whose debounced search was not started
C22_Witness ==
    /\ app.isLoading /\ ~app.timer
    /\ LongEnough(app.input) /\ app.input # app.currentQuery

Quiet == app.fetch = <<>> /\ ~app.timer

\* C23: once no search is in flight and no debounce timer is pending, the
\* cards shown are the results of a search for the text now in the search
\* box, and an empty box shows no cards.
C23_ShownMatchesInput ==
    (Quiet /\ app.container.kind = "cards")
        => (Trim(app.input) # "" /\ app.container.query = Trim(app.input))

\* C24: when a search has ended isLoading is false and the loading
\* indicator is hidden, and what is shown follows the server's answer: n
\* cards after a successful response with n >= 1 results, the no-results
\* message after an empty one, the error message after a failure.
C24_ShownFollowsAnswer ==
    [][\A i \in 1..Len(app.fetch), resp \in Responses(server) :
          FetchDone(i, resp) =>
             /\ ~app'.isLoading /\ ~app'.loading
             /\ (resp.status = 200 /\ resp.n >= 1)
                   => (app'.container.kind = "cards"
                         /\ app'.container.n = resp.n)
             /\ (resp.status = 200 /\ resp.n = 0)
                   => (app'.noResults /\ app'.container.kind = "empty")
             /\ resp.status # 200
                   => (app'.container.kind = "error" /\ ~app'.noResults)]_vars

====
